---- MODULE Spec2Model ----
(***************************************************************************)
(* Model of pkg/api/v1/handlers/manifests.go of helm-registry: the         *)
(* metadata/values handlers over the Space -> Chart -> Version storage.    *)
(*                                                                         *)
(* A mutation request (UpdateMetadata, UpdateValues) is split at its two   *)
(* storage calls: the ...Begin action runs the handler up to and including *)
(* version.GetContent, the ...Finish action runs the rest (decode,         *)
(* validate, mutate, re-encode, version.PutContent, projection).  Nothing  *)
(* between the two storage calls touches shared state, so this is the      *)
(* exact interleaving granularity of two concurrent requests.              *)
(* The read-only handlers are single actions.                              *)
(***************************************************************************)
EXTENDS Integers, Sequences, FiniteSets, TLC

(***************************************************************************)
(* Bounds                                                                  *)
(***************************************************************************)
MaxDescr == 1           \* descriptive metadata values 0..MaxDescr
MaxDoc == 1             \* values documents 0..MaxDoc
MaxVersions == 3        \* versions per chart under ListSpec
MaxStart == 5           \* paging start drawn from -1..MaxStart
MaxLimit == 10          \* paging limit drawn from -1..MaxLimit

VARIABLES
    versions,   \* chart name -> sequence of version numbers, in backend (List) order
    content,    \* <<chart name, version number>> -> stored archive bytes
    reqs,       \* request id -> state of the mutation/fetch request in flight
    resp        \* response of the last listing request

vars == <<versions, content, reqs, resp>>

Requests == {"r1", "r2"}
SpaceNames == {"s1", "sx"}          \* "s1" exists, "sx" does not
ChartList == <<"p1", "p2">>         \* space.List(): chart names of space "s1"
ChartNames == {"p1", "p2", "px"}    \* "px" does not exist

Min(a, b) == IF a <= b THEN a ELSE b
Last(s) == s[Len(s)]
Range(s) == {s[i] : i \in 1..Len(s)}

(***************************************************************************)
(* Errors: errors.ErrorXxx.Format(args...)                                 *)
(***************************************************************************)
Err(kind, args) == [kind |-> kind, args |-> args]
Nil == Err("nil", <<>>)

(***************************************************************************)
(* Payload documents and the archive codec                                 *)
(***************************************************************************)
Doc(fmt, n) == [fmt |-> fmt, doc |-> n]
NoDoc == Doc("none", 0)
BadDoc == Doc("bad", 0)

Meta(name, version, descr) == [Name |-> name, Version |-> version, Descr |-> descr]
NoMetadata == Meta("", 0, 0)

NoChart == [Metadata |-> NoMetadata, Values |-> [Raw |-> NoDoc]]
Corrupt == <<>>

\* yaml.JSONToYAML: a JSON document becomes the YAML document of the same
\* content, anything else is a conversion error
JSONToYAML(values) ==
    IF values.fmt = "json"
    THEN [err |-> FALSE, yaml |-> Doc("yaml", values.doc)]
    ELSE [err |-> TRUE, yaml |-> NoDoc]

\* chartutil.LoadArchive: bytes -> chart, or an error
LoadArchive(data) ==
    IF Len(data) = 4
    THEN [err |-> FALSE,
          chart |-> [Metadata |-> Meta(data[1], data[2], data[3]),
                     Values |-> [Raw |-> data[4]]]]
    ELSE [err |-> TRUE, chart |-> NoChart]

\* orchestration.Archive: chart -> bytes (the caller decides whether it fails)
Archive(chart) ==
    <<chart.Metadata.Name, chart.Metadata.Version, chart.Metadata.Descr,
      chart.Values.Raw>>

\* storage.CoalesceMetadata: the metadata projection of a decoded chart
CoalesceMetadata(chart) == chart.Metadata

(***************************************************************************)
(* Storage                                                                 *)
(***************************************************************************)
Keys(vs) == UNION {{<<c, v>> : v \in Range(vs[c])} : c \in DOMAIN vs}

\* managerHelper: resolve space/chart/version of the request
Resolvable(vs, chart, ver) == chart \in DOMAIN vs /\ ver \in Range(vs[chart])

\* version.Metadata()
VersionMetadata(store, chart, ver) ==
    LET la == LoadArchive(store[<<chart, ver>>])
    IN IF la.err
       THEN [err |-> Err("StorageError", <<"metadata">>), metadata |-> NoMetadata]
       ELSE [err |-> Nil, metadata |-> CoalesceMetadata(la.chart)]

\* version.Values()
VersionValues(store, chart, ver) ==
    LET la == LoadArchive(store[<<chart, ver>>])
    IN IF la.err
       THEN [err |-> Err("StorageError", <<"values">>), values |-> NoDoc]
       ELSE [err |-> Nil, values |-> la.chart.Values.Raw]

\* version.PutContent: replaces the whole content of one version
PutContent(store, chart, ver, data) == [store EXCEPT ![<<chart, ver>>] = data]

(***************************************************************************)
(* Requests                                                                *)
(***************************************************************************)
Idle ==
    [pc |-> "idle", op |-> "none", chart |-> "p1", ver |-> 0,
     md |-> NoMetadata, values |-> NoDoc, data |-> Corrupt,
     err |-> Nil, gets |-> 0, puts |-> 0, wrote |-> FALSE, stale |-> FALSE,
     metadata |-> NoMetadata, out |-> NoDoc]

NewRequest(op, chart, ver, md, values) ==
    [Idle EXCEPT !.op = op, !.chart = chart, !.ver = ver, !.md = md, !.values = values]

Fail(rq, err) == [rq EXCEPT !.pc = "done", !.err = err, !.data = Corrupt]

NotFound(what) == Err("ErrorContentNotFound", <<what>>)

\* variant of IdentityError: the version is compared before the name
IdentityErrorVersionFirst(origin, md) ==
    IF origin.Metadata.Version # md.Version
    THEN Err("ErrorParamValueError",
             <<"version", ToString(origin.Metadata.Version), ToString(md.Version)>>)
    ELSE IF origin.Metadata.Name # md.Name
    THEN Err("ErrorParamValueError", <<"name", origin.Metadata.Name, md.Name>>)
    ELSE Nil

\* variant of IdentityError: the version is not compared
IdentityErrorNameOnly(origin, md) ==
    IF origin.Metadata.Name # md.Name
    THEN Err("ErrorParamValueError", <<"name", origin.Metadata.Name, md.Name>>)
    ELSE Nil

\* UpdateMetadata, lines 133-138: the identity check
IdentityError(origin, md) ==
    IF origin.Metadata.Name # md.Name
    THEN Err("ErrorParamValueError", <<"name", origin.Metadata.Name, md.Name>>)
    ELSE IF origin.Metadata.Version # md.Version
    THEN Err("ErrorParamValueError",
             <<"version", ToString(origin.Metadata.Version), ToString(md.Version)>>)
    ELSE Nil

\* variant of ReplaceMetadata: the descriptive fields of the candidate are dropped
ReplaceMetadataIdentityOnly(origin, md) ==
    [origin EXCEPT !.Metadata.Name = md.Name, !.Metadata.Version = md.Version]

\* UpdateMetadata, line 139: *origin.Metadata = md.Metadata
ReplaceMetadata(origin, md) == [origin EXCEPT !.Metadata = md]

\* UpdateValues, line 183: origin.Values.Raw = string(yamlValues)
ReplaceValues(origin, yamlValues) == [origin EXCEPT !.Values.Raw = yamlValues]

InternalTypeError(rq) ==
    Err("ErrorInternalTypeError", <<rq.chart, ToString(rq.ver), "chart", "unknown">>)

\* UpdateMetadata up to and including version.GetContent (lines 119-127)
UpdateMetadataRead(vs, store, chart, ver, md, getFail) ==
    LET rq == NewRequest("UpdateMetadata", chart, ver, md, NoDoc)
        nf == NewRequest("UpdateMetadata", chart, ver, NoMetadata, NoDoc)
    IN IF ~Resolvable(vs, chart, ver) THEN Fail(nf, NotFound("version"))
       ELSE IF md = NoMetadata THEN Fail(rq, Err("ErrorParamNotFound", <<"metadata">>))
       ELSE IF getFail THEN Fail([rq EXCEPT !.gets = 1], Err("StorageError", <<"get">>))
       ELSE [rq EXCEPT !.pc = "read", !.gets = 1, !.data = store[<<chart, ver>>]]

\* variant of UpdateMetadataWrite: the identity is checked after PutContent
UpdateMetadataWriteCheckAfterPut(store, rq, archFail, putFail) ==
    LET la == LoadArchive(rq.data)
        ie == IdentityError(la.chart, rq.md)
        origin == ReplaceMetadata(la.chart, rq.md)
        data == Archive(origin)
        put == [rq EXCEPT !.puts = 1, !.wrote = TRUE]
    IN IF la.err THEN [req |-> Fail(rq, InternalTypeError(rq)), store |-> store]
       ELSE IF archFail
       THEN [req |-> Fail(rq, Err("ArchiveError", <<"archive">>)), store |-> store]
       ELSE IF putFail
       THEN [req |-> Fail([rq EXCEPT !.puts = 1], Err("StorageError", <<"put">>)),
             store |-> store]
       ELSE IF ie # Nil
       THEN [req |-> Fail(put, ie), store |-> PutContent(store, rq.chart, rq.ver, data)]
       ELSE [req |-> [put EXCEPT !.pc = "done", !.data = data,
                                 !.metadata = CoalesceMetadata(origin)],
             store |-> PutContent(store, rq.chart, rq.ver, data)]

\* UpdateMetadata after version.GetContent (lines 128-149)
UpdateMetadataWrite(store, rq, archFail, putFail) ==
    LET la == LoadArchive(rq.data)
        ie == IdentityError(la.chart, rq.md)
        origin == ReplaceMetadata(la.chart, rq.md)
        data == Archive(origin)
    IN IF la.err THEN [req |-> Fail(rq, InternalTypeError(rq)), store |-> store]
       ELSE IF ie # Nil THEN [req |-> Fail(rq, ie), store |-> store]
       ELSE IF archFail
       THEN [req |-> Fail(rq, Err("ArchiveError", <<"archive">>)), store |-> store]
       ELSE IF putFail
       THEN [req |-> Fail([rq EXCEPT !.puts = 1], Err("StorageError", <<"put">>)),
             store |-> store]
       ELSE [req |-> [rq EXCEPT !.pc = "done", !.puts = 1, !.wrote = TRUE,
                                !.data = data,
                                !.metadata = CoalesceMetadata(origin)],
             store |-> PutContent(store, rq.chart, rq.ver, data)]

\* variant of UpdateValuesRead: the content is read before the payload is converted
UpdateValuesReadGetFirst(vs, store, chart, ver, values, getFail) ==
    LET rq == NewRequest("UpdateValues", chart, ver, NoMetadata, values)
        nf == NewRequest("UpdateValues", chart, ver, NoMetadata, NoDoc)
        rv == [rq EXCEPT !.out = values, !.gets = 1]
    IN IF ~Resolvable(vs, chart, ver) THEN Fail(nf, NotFound("version"))
       ELSE IF values = NoDoc THEN Fail(rq, Err("ErrorParamNotFound", <<"values">>))
       ELSE IF getFail THEN Fail(rv, Err("StorageError", <<"get">>))
       ELSE IF JSONToYAML(values).err
       THEN Fail(rv, Err("ErrorParamTypeError", <<"values", "json", "unknown">>))
       ELSE [rv EXCEPT !.pc = "read", !.data = store[<<chart, ver>>]]

\* UpdateValues up to and including version.GetContent (lines 165-177)
UpdateValuesRead(vs, store, chart, ver, values, getFail) ==
    LET rq == NewRequest("UpdateValues", chart, ver, NoMetadata, values)
        nf == NewRequest("UpdateValues", chart, ver, NoMetadata, NoDoc)
        rv == [rq EXCEPT !.out = values]
    IN IF ~Resolvable(vs, chart, ver) THEN Fail(nf, NotFound("version"))
       ELSE IF values = NoDoc THEN Fail(rq, Err("ErrorParamNotFound", <<"values">>))
       ELSE IF JSONToYAML(values).err
       THEN Fail(rv, Err("ErrorParamTypeError", <<"values", "json", "unknown">>))
       ELSE IF getFail THEN Fail([rv EXCEPT !.gets = 1], Err("StorageError", <<"get">>))
       ELSE [rv EXCEPT !.pc = "read", !.gets = 1, !.data = store[<<chart, ver>>]]

\* variant of UpdateValuesWrite: a decode error does not end the request
UpdateValuesWriteNoDecodeCheck(store, rq, archFail, putFail) ==
    LET la == LoadArchive(rq.data)
        origin == ReplaceValues(la.chart, JSONToYAML(rq.values).yaml)
        data == Archive(origin)
    IN IF archFail
       THEN [req |-> Fail(rq, Err("ArchiveError", <<"archive">>)), store |-> store]
       ELSE IF putFail
       THEN [req |-> Fail([rq EXCEPT !.puts = 1], Err("StorageError", <<"put">>)),
             store |-> store]
       ELSE [req |-> [rq EXCEPT !.pc = "done", !.puts = 1, !.wrote = TRUE,
                                !.data = data],
             store |-> PutContent(store, rq.chart, rq.ver, data)]

\* variant of UpdateValuesWrite: the values are replaced in the archive the
\* version holds at the time of the write, not in the copy read earlier
UpdateValuesWriteFromStore(store, rq, archFail, putFail) ==
    LET la == LoadArchive(store[<<rq.chart, rq.ver>>])
        origin == ReplaceValues(la.chart, JSONToYAML(rq.values).yaml)
        data == Archive(origin)
    IN IF la.err THEN [req |-> Fail(rq, InternalTypeError(rq)), store |-> store]
       ELSE IF archFail
       THEN [req |-> Fail(rq, Err("ArchiveError", <<"archive">>)), store |-> store]
       ELSE IF putFail
       THEN [req |-> Fail([rq EXCEPT !.puts = 1], Err("StorageError", <<"put">>)),
             store |-> store]
       ELSE [req |-> [rq EXCEPT !.pc = "done", !.puts = 1, !.wrote = TRUE,
                                !.data = data],
             store |-> PutContent(store, rq.chart, rq.ver, data)]

\* UpdateValues after version.GetContent (lines 178-192)
UpdateValuesWrite(store, rq, archFail, putFail) ==
    LET la == LoadArchive(rq.data)
        origin == ReplaceValues(la.chart, JSONToYAML(rq.values).yaml)
        data == Archive(origin)
    IN IF la.err THEN [req |-> Fail(rq, InternalTypeError(rq)), store |-> store]
       ELSE IF archFail
       THEN [req |-> Fail(rq, Err("ArchiveError", <<"archive">>)), store |-> store]
       ELSE IF putFail
       THEN [req |-> Fail([rq EXCEPT !.puts = 1], Err("StorageError", <<"put">>)),
             store |-> store]
       ELSE [req |-> [rq EXCEPT !.pc = "done", !.puts = 1, !.wrote = TRUE,
                                !.data = data],
             store |-> PutContent(store, rq.chart, rq.ver, data)]

\* FetchMetadata (lines 109-115)
FetchMetadataResult(vs, store, chart, ver) ==
    LET rq == NewRequest("FetchMetadata", chart, ver, NoMetadata, NoDoc)
        vm == VersionMetadata(store, chart, ver)
    IN IF ~Resolvable(vs, chart, ver) THEN Fail(rq, NotFound("version"))
       ELSE [rq EXCEPT !.pc = "done", !.err = vm.err, !.metadata = vm.metadata]

\* FetchValues (lines 155-161)
FetchValuesResult(vs, store, chart, ver) ==
    LET rq == NewRequest("FetchValues", chart, ver, NoMetadata, NoDoc)
        vv == VersionValues(store, chart, ver)
    IN IF ~Resolvable(vs, chart, ver) THEN Fail(rq, NotFound("version"))
       ELSE [rq EXCEPT !.pc = "done", !.err = vv.err, !.out = vv.values]

\* History only: w is the outcome of request r's second half.  When it
\* replaced the content of a version, every other request that holds a copy
\* of that version's content read before the write is marked stale.
Settle(rs, r, w) ==
    [q \in DOMAIN rs |->
        IF q = r THEN w.req
        ELSE IF /\ w.req.wrote
                /\ rs[q].pc = "read"
                /\ rs[q].chart = w.req.chart
                /\ rs[q].ver = w.req.ver
        THEN [rs[q] EXCEPT !.stale = TRUE]
        ELSE rs[q]]

(***************************************************************************)
(* Inputs                                                                  *)
(***************************************************************************)
TargetCharts == {"p1"}
TargetVersions == {1, 2}            \* under Spec version 1 exists, version 2 does not
\* candidates of the chart's name with every version and description, and
\* candidates of another name with every version
MetadataPayloads ==
    {Meta("p1", v, d) : v \in TargetVersions, d \in 0..MaxDescr}
        \cup {Meta("py", v, MaxDescr) : v \in TargetVersions}
        \cup {NoMetadata}
ValuesPayloads == {Doc("json", n) : n \in 0..MaxDoc} \cup {BadDoc, NoDoc}

InitialArchive(chart, ver) ==
    Archive([Metadata |-> Meta(chart, ver, 0), Values |-> [Raw |-> Doc("yaml", 0)]])

NoResp ==
    [op |-> "none", space |-> "s1", chart |-> "p1", start |-> 0, limit |-> 0,
     total |-> 0, page |-> <<>>, metadata |-> NoMetadata, err |-> Nil, lookups |-> 0]

(***************************************************************************)
(* Actions of the mutation specification                                   *)
(***************************************************************************)
UpdateMetadataBegin(r) ==
    /\ reqs[r].pc = "idle"
    /\ \E chart \in TargetCharts, ver \in TargetVersions,
          md \in MetadataPayloads, getFail \in BOOLEAN :
          reqs' = [reqs EXCEPT ![r] =
                      UpdateMetadataRead(versions, content, chart, ver, md, getFail)]
    /\ UNCHANGED <<versions, content, resp>>

UpdateMetadataFinish(r) ==
    /\ reqs[r].pc = "read"
    /\ reqs[r].op = "UpdateMetadata"
    /\ \E archFail \in BOOLEAN, putFail \in BOOLEAN :
          LET w == UpdateMetadataWrite(content, reqs[r], archFail, putFail)
          IN /\ reqs' = Settle(reqs, r, w)
             /\ content' = w.store
    /\ UNCHANGED <<versions, resp>>

UpdateValuesBegin(r) ==
    /\ reqs[r].pc = "idle"
    /\ \E chart \in TargetCharts, ver \in TargetVersions,
          values \in ValuesPayloads, getFail \in BOOLEAN :
          reqs' = [reqs EXCEPT ![r] =
                      UpdateValuesRead(versions, content, chart, ver, values, getFail)]
    /\ UNCHANGED <<versions, content, resp>>

UpdateValuesFinish(r) ==
    /\ reqs[r].pc = "read"
    /\ reqs[r].op = "UpdateValues"
    /\ \E archFail \in BOOLEAN, putFail \in BOOLEAN :
          LET w == UpdateValuesWrite(content, reqs[r], archFail, putFail)
          IN /\ reqs' = Settle(reqs, r, w)
             /\ content' = w.store
    /\ UNCHANGED <<versions, resp>>

FetchMetadata(r) ==
    /\ reqs[r].pc = "idle"
    /\ \E chart \in TargetCharts, ver \in TargetVersions :
          reqs' = [reqs EXCEPT ![r] = FetchMetadataResult(versions, content, chart, ver)]
    /\ UNCHANGED <<versions, content, resp>>

FetchValues(r) ==
    /\ reqs[r].pc = "idle"
    /\ \E chart \in TargetCharts, ver \in TargetVersions :
          reqs' = [reqs EXCEPT ![r] = FetchValuesResult(versions, content, chart, ver)]
    /\ UNCHANGED <<versions, content, resp>>

\* the response has been delivered; the slot serves the next request
Return(r) ==
    /\ reqs[r].pc = "done"
    /\ reqs' = [reqs EXCEPT ![r] = Idle]
    /\ UNCHANGED <<versions, content, resp>>

Init ==
    /\ versions = [c \in {"p1", "p2"} |->
                      IF c = "p1" THEN <<1>> ELSE <<>>]
    /\ content \in [Keys(versions) -> {Corrupt}] \cup
                   {[k \in Keys(versions) |-> InitialArchive(k[1], k[2])]}
    /\ reqs = [r \in Requests |-> Idle]
    /\ resp = NoResp

Next ==
    \E r \in Requests :
        \/ UpdateMetadataBegin(r)
        \/ UpdateMetadataFinish(r)
        \/ UpdateValuesBegin(r)
        \/ UpdateValuesFinish(r)
        \/ FetchMetadata(r)
        \/ FetchValues(r)
        \/ Return(r)

Spec == Init /\ [][Next]_vars

(***************************************************************************)
(* Listing handlers                                                        *)
(***************************************************************************)
\* standardizeRange(total, start, limit): the page window [from, to)
standardizeRange(total, start, limit) ==
    LET from == IF start < 0 THEN 0 ELSE IF start > total THEN total ELSE start
        to == IF limit <= 0 THEN total ELSE Min(from + limit, total)
    IN <<from, to>>

\* metadata[start:end]
Slice(s, start, end) == SubSeq(s, start + 1, end)

\* common.GetSpace / common.GetChart
SpaceExists(spaceName) == spaceName = "s1"
ChartExists(vs, spaceName, chartName) == SpaceExists(spaceName) /\ chartName \in DOMAIN vs

RECURSIVE MetadataOfVersions(_, _, _, _)
\* metadata of the versions numbers[i..] of a chart, in that order; the first
\* version whose metadata cannot be read makes the whole listing fail
MetadataOfVersions(store, chart, numbers, i) ==
    IF i > Len(numbers) THEN [err |-> Nil, metadata |-> <<>>]
    ELSE LET vm == VersionMetadata(store, chart, numbers[i])
             rest == MetadataOfVersions(store, chart, numbers, i + 1)
         IN IF vm.err # Nil THEN [err |-> vm.err, metadata |-> <<>>]
            ELSE IF rest.err # Nil THEN rest
            ELSE [err |-> Nil, metadata |-> <<vm.metadata>> \o rest.metadata]

\* chart.VersionMetadata()
ChartVersionMetadata(vs, store, chart) == MetadataOfVersions(store, chart, vs[chart], 1)

RECURSIVE MetadataOfCharts(_, _, _, _)
MetadataOfCharts(vs, store, names, i) ==
    IF i > Len(names) THEN [err |-> Nil, metadata |-> <<>>]
    ELSE LET cm == ChartVersionMetadata(vs, store, names[i])
             rest == MetadataOfCharts(vs, store, names, i + 1)
         IN IF cm.err # Nil THEN cm
            ELSE IF rest.err # Nil THEN rest
            ELSE [err |-> Nil, metadata |-> cm.metadata \o rest.metadata]

\* space.VersionMetadata()
SpaceVersionMetadata(vs, store) == MetadataOfCharts(vs, store, ChartList, 1)

\* variant of getLatestMetadata: the first listed version is taken
getLatestMetadataFirst(vs, store, spaceName, chartName) ==
    IF ~ChartExists(vs, spaceName, chartName)
    THEN [err |-> NotFound("chart"), metadata |-> NoMetadata, lookups |-> 0]
    ELSE LET versionNumbers == vs[chartName]
         IN IF Len(versionNumbers) <= 0
            THEN [err |-> NotFound("metadata"), metadata |-> NoMetadata, lookups |-> 0]
            ELSE LET vm == VersionMetadata(store, chartName, versionNumbers[1])
                 IN [err |-> vm.err, metadata |-> vm.metadata, lookups |-> 1]

\* getLatestMetadata (lines 198-215); lookups counts the chart.Version calls
getLatestMetadata(vs, store, spaceName, chartName) ==
    IF ~ChartExists(vs, spaceName, chartName)
    THEN [err |-> NotFound("chart"), metadata |-> NoMetadata, lookups |-> 0]
    ELSE LET versionNumbers == vs[chartName]
         IN IF Len(versionNumbers) <= 0
            THEN [err |-> NotFound("metadata"), metadata |-> NoMetadata, lookups |-> 0]
            ELSE LET vm == VersionMetadata(store, chartName,
                                           versionNumbers[Len(versionNumbers)])
                 IN [err |-> vm.err, metadata |-> vm.metadata, lookups |-> 1]

RECURSIVE LatestLoopSkipFailed(_, _, _, _, _, _)
\* variant of LatestLoop: a chart whose latest metadata cannot be obtained is skipped
LatestLoopSkipFailed(vs, store, spaceName, chartNames, i, metadata) ==
    IF i > Len(chartNames) THEN [err |-> Nil, metadata |-> metadata]
    ELSE LET md == getLatestMetadata(vs, store, spaceName, chartNames[i])
         IN LatestLoopSkipFailed(vs, store, spaceName, chartNames, i + 1,
                                 IF md.err # Nil THEN metadata
                                 ELSE Append(metadata, md.metadata))

RECURSIVE LatestLoop(_, _, _, _, _, _)
\* the loop of ListLatestMetadataInSpace (lines 61-68)
LatestLoop(vs, store, spaceName, chartNames, i, metadata) ==
    IF i > Len(chartNames) THEN [err |-> Nil, metadata |-> metadata]
    ELSE LET md == getLatestMetadata(vs, store, spaceName, chartNames[i])
         IN IF md.err # Nil THEN [err |-> md.err, metadata |-> <<>>]
            ELSE LatestLoop(vs, store, spaceName, chartNames, i + 1,
                            Append(metadata, md.metadata))

Request(op, spaceName, chartName, start, limit) ==
    [NoResp EXCEPT !.op = op, !.space = spaceName, !.chart = chartName,
                   !.start = start, !.limit = limit]

\* variant of Page: the total is the length of the page
PageTotalOfPage(rq, listing) ==
    IF listing.err # Nil THEN [rq EXCEPT !.err = listing.err]
    ELSE LET range == standardizeRange(Len(listing.metadata), rq.start, rq.limit)
             page == Slice(listing.metadata, range[1], range[2])
         IN [rq EXCEPT !.total = Len(page), !.page = page]

\* the tail shared by the three listings: total, window, page
Page(rq, listing) ==
    IF listing.err # Nil THEN [rq EXCEPT !.err = listing.err]
    ELSE LET total == Len(listing.metadata)
             range == standardizeRange(total, rq.start, rq.limit)
         IN [rq EXCEPT !.total = total,
                       !.page = Slice(listing.metadata, range[1], range[2])]

\* ListMetadataInSpace (lines 21-41)
ListMetadataInSpaceResult(vs, store, spaceName, start, limit) ==
    LET rq == Request("ListMetadataInSpace", spaceName, "", start, limit)
    IN IF ~SpaceExists(spaceName) THEN [rq EXCEPT !.err = NotFound("space")]
       ELSE Page(rq, SpaceVersionMetadata(vs, store))

\* ListLatestMetadataInSpace (lines 44-73)
ListLatestMetadataInSpaceResult(vs, store, spaceName, start, limit) ==
    LET rq == Request("ListLatestMetadataInSpace", spaceName, "", start, limit)
    IN IF ~SpaceExists(spaceName) THEN [rq EXCEPT !.err = NotFound("space")]
       ELSE Page(rq, LatestLoop(vs, store, spaceName, ChartList, 1, <<>>))

\* ListMetadataInChart (lines 76-97)
ListMetadataInChartResult(vs, store, spaceName, chartName, start, limit) ==
    LET rq == Request("ListMetadataInChart", spaceName, chartName, start, limit)
    IN IF ~ChartExists(vs, spaceName, chartName)
       THEN [rq EXCEPT !.err = NotFound("chart")]
       ELSE Page(rq, ChartVersionMetadata(vs, store, chartName))

\* GetLatestMetadataInChart (lines 100-106)
GetLatestMetadataInChartResult(vs, store, spaceName, chartName) ==
    LET rq == Request("GetLatestMetadataInChart", spaceName, chartName, 0, 0)
        md == getLatestMetadata(vs, store, spaceName, chartName)
    IN [rq EXCEPT !.err = md.err, !.metadata = md.metadata, !.lookups = md.lookups]

Starts == -1..MaxStart
Limits == -1..MaxLimit

ListMetadataInSpace ==
    /\ resp.op = "none"
    /\ \E spaceName \in SpaceNames, start \in Starts, limit \in Limits :
          resp' = ListMetadataInSpaceResult(versions, content, spaceName, start, limit)
    /\ UNCHANGED <<versions, content, reqs>>

ListLatestMetadataInSpace ==
    /\ resp.op = "none"
    /\ \E spaceName \in SpaceNames, start \in Starts, limit \in Limits :
          resp' = ListLatestMetadataInSpaceResult(versions, content, spaceName,
                                                  start, limit)
    /\ UNCHANGED <<versions, content, reqs>>

ListMetadataInChart ==
    /\ resp.op = "none"
    /\ \E chartName \in ChartNames, start \in Starts, limit \in Limits :
          resp' = ListMetadataInChartResult(versions, content, "s1", chartName,
                                            start, limit)
    /\ UNCHANGED <<versions, content, reqs>>

GetLatestMetadataInChart ==
    /\ resp.op = "none"
    /\ \E spaceName \in SpaceNames, chartName \in ChartNames :
          resp' = GetLatestMetadataInChartResult(versions, content, spaceName, chartName)
    /\ UNCHANGED <<versions, content, reqs>>

\* the response has been sent to the client
Deliver ==
    /\ resp.op # "none"
    /\ resp' = NoResp
    /\ UNCHANGED <<versions, content, reqs>>

\* sequences without repetition over 1..n, of every length: the orders in
\* which a backend may list the versions of a chart
InjectiveSeqs(n) ==
    UNION {{s \in [1..k -> 1..n] : \A i, j \in 1..k : i # j => s[i] # s[j]} : k \in 0..n}

\* every version holds a valid archive of its own identity, or at most one
\* version holds bytes that do not decode
Contents(vs) ==
    LET good == [k \in Keys(vs) |-> InitialArchive(k[1], k[2])]
    IN {good} \cup {[good EXCEPT ![k] = Corrupt] : k \in Keys(vs)}

ListInit ==
    /\ versions \in {[c \in {"p1", "p2"} |-> IF c = "p1" THEN s ELSE t] :
                       s \in InjectiveSeqs(MaxVersions), t \in {<<>>, <<1>>}}
    /\ content \in Contents(versions)
    /\ reqs = [r \in Requests |-> Idle]
    /\ resp = NoResp

ListNext ==
    \/ ListMetadataInSpace
    \/ ListLatestMetadataInSpace
    \/ ListMetadataInChart
    \/ GetLatestMetadataInChart
    \/ Deliver

ListSpec == ListInit /\ [][ListNext]_vars

(***************************************************************************)
(* Properties                                                              *)
(***************************************************************************)
Key(rq) == <<rq.chart, rq.ver>>
IsUpdate(rq) == rq.op \in {"UpdateMetadata", "UpdateValues"}
Origin(data) == LoadArchive(data).chart
\* request r runs the second half of its handler in this step
Finishes(r) == reqs[r].pc = "read" /\ reqs'[r].pc = "done"
Succeeds(r) == Finishes(r) /\ reqs'[r].err = Nil

\* C1: an UpdateMetadata request whose candidate differs in name or in
\* version from the archive it decoded ends with ErrorParamValueError for
\* the field "name" when the names differ and for "version" otherwise, has
\* not called PutContent, and leaves the stored content as it was.
C1_MismatchRejected ==
    [][\A r \in Requests :
          LET rq == reqs[r]
              origin == Origin(rq.data)
          IN (/\ Finishes(r)
              /\ rq.op = "UpdateMetadata"
              /\ ~LoadArchive(rq.data).err
              /\ \/ rq.md.Name # origin.Metadata.Name
                 \/ rq.md.Version # origin.Metadata.Version)
             => /\ reqs'[r].err.kind = "ErrorParamValueError"
                /\ reqs'[r].err.args[1] =
                      (IF rq.md.Name # origin.Metadata.Name THEN "name" ELSE "version")
                /\ reqs'[r].puts = 0
                /\ ~reqs'[r].wrote
                /\ content' = content]_vars

\* a request rejected for its name although its version differs as well
C1_Witness ==
    \E r \in Requests :
        /\ reqs[r].pc = "done"
        /\ reqs[r].op = "UpdateMetadata"
        /\ reqs[r].err.kind = "ErrorParamValueError"
        /\ reqs[r].err.args[1] = "name"
        /\ reqs[r].md.Version # reqs[r].ver
        /\ reqs[r].puts = 0

PrePersistKinds ==
    {"ErrorContentNotFound", "ErrorParamNotFound", "ErrorParamTypeError",
     "ErrorInternalTypeError", "ErrorParamValueError", "ArchiveError"}

\* C2: a request that failed in a step before persisting has never called
\* PutContent; PutContent is called only by a request that has read the
\* content, decoded it and (for metadata) passed the identity check, and
\* what it stores decodes to an archive of the version's own identity.
C2_NoPutAfterFailure ==
    /\ [](\A r \in Requests :
             /\ (reqs[r].err.kind \in PrePersistKinds \/ reqs[r].err.args = <<"get">>)
                   => (reqs[r].puts = 0 /\ ~reqs[r].wrote)
             /\ reqs[r].puts > 0 => (IsUpdate(reqs[r]) /\ reqs[r].gets = 1))
    /\ [][\A r \in Requests :
             reqs'[r].puts > reqs[r].puts
                => /\ reqs[r].pc = "read"
                   /\ ~LoadArchive(reqs[r].data).err
                   /\ reqs[r].op = "UpdateMetadata"
                         => IdentityError(Origin(reqs[r].data), reqs[r].md) = Nil
                   /\ \A k \in DOMAIN content :
                         content'[k] # content[k]
                            => /\ k = Key(reqs[r])
                               /\ ~LoadArchive(content'[k]).err
                               /\ Origin(content'[k]).Metadata.Name = k[1]
                               /\ Origin(content'[k]).Metadata.Version = k[2]]_vars

\* a request stopped by a failing re-encode, without any PutContent
C2_Witness ==
    \E r \in Requests :
        /\ reqs[r].pc = "done"
        /\ IsUpdate(reqs[r])
        /\ reqs[r].err.kind = "ArchiveError"
        /\ reqs[r].gets = 1
        /\ reqs[r].puts = 0

HasIdentity(data, k) ==
    /\ ~LoadArchive(data).err
    /\ Origin(data).Metadata.Name = k[1]
    /\ Origin(data).Metadata.Version = k[2]

C4_MetadataReplaced ==
    [][\A r \in Requests :
          (Succeeds(r) /\ reqs[r].op = "UpdateMetadata")
             => LET rq == reqs[r]
                    stored == LoadArchive(content'[Key(rq)])
                    fetched == FetchMetadataResult(versions', content', rq.chart, rq.ver)
                IN /\ ~stored.err
                   /\ stored.chart.Metadata = rq.md
                   /\ stored.chart.Values = Origin(rq.data).Values
                   /\ reqs'[r].metadata = rq.md
                   /\ fetched.err = Nil
                   /\ fetched.metadata.Descr = rq.md.Descr
                   /\ fetched.metadata.Name = Origin(rq.data).Metadata.Name
                   /\ fetched.metadata.Version = Origin(rq.data).Metadata.Version]_vars

\* a candidate with a new description has been stored, and another request
\* has fetched it
C4_Witness ==
    \E r, q \in Requests :
        /\ reqs[r].pc = "done" /\ reqs[r].op = "UpdateMetadata" /\ reqs[r].wrote
        /\ reqs[r].md.Descr # 0
        /\ reqs[r].metadata = reqs[r].md
        /\ reqs[q].pc = "done" /\ reqs[q].op = "FetchMetadata"
        /\ Key(reqs[q]) = Key(reqs[r])
        /\ reqs[q].metadata = reqs[r].md

\* C5: an UpdateValues request on an existing version whose payload does
\* not convert ends with ErrorParamTypeError without having called
\* GetContent or PutContent, and the step leaves the stored content alone.
C5_BadValuesRejected ==
    /\ [](\A r \in Requests :
             (/\ reqs[r].pc # "idle"
              /\ reqs[r].op = "UpdateValues"
              /\ Resolvable(versions, reqs[r].chart, reqs[r].ver)
              /\ reqs[r].values # NoDoc
              /\ JSONToYAML(reqs[r].values).err)
                => /\ reqs[r].pc = "done"
                   /\ reqs[r].err.kind = "ErrorParamTypeError"
                   /\ reqs[r].gets = 0
                   /\ reqs[r].puts = 0
                   /\ ~reqs[r].wrote)
    /\ [][\A r \in Requests :
             (reqs[r].pc = "idle" /\ reqs'[r].err.kind = "ErrorParamTypeError")
                => content' = content]_vars

C5_Witness ==
    \E r \in Requests :
        /\ reqs[r].pc = "done"
        /\ reqs[r].op = "UpdateValues"
        /\ reqs[r].values = BadDoc
        /\ reqs[r].err = Err("ErrorParamTypeError", <<"values", "json", "unknown">>)
        /\ reqs[r].gets = 0

\* C6: a mutation that succeeds stores the archive it read at GetContent
\* with its own change applied, whatever the version holds at that moment:
\* the part it does not change comes from its copy, so a change another
\* request stored in between is overwritten.
C6_WritesFromOwnCopy ==
    [][\A r \in Requests :
          (Succeeds(r) /\ IsUpdate(reqs[r]))
             => LET rq == reqs[r]
                    stored == Origin(content'[Key(rq)])
                IN /\ reqs'[r].wrote
                   /\ rq.op = "UpdateValues"
                         => stored.Metadata = Origin(rq.data).Metadata
                   /\ rq.op = "UpdateMetadata"
                         => stored.Values = Origin(rq.data).Values]_vars

\* the lost update: an UpdateMetadata and an UpdateValues of one version have
\* both returned success, the one that wrote last had read before the other
\* wrote, and the stored archive lacks the other's change
C6_Witness ==
    \E r, q \in Requests :
        /\ r # q
        /\ Key(reqs[r]) = Key(reqs[q])
        /\ reqs[r].pc = "done" /\ reqs[r].err = Nil /\ reqs[r].wrote
        /\ reqs[q].pc = "done" /\ reqs[q].err = Nil /\ reqs[q].wrote
        /\ reqs[q].stale
        /\ content[Key(reqs[q])] = reqs[q].data
        /\ \/ /\ reqs[r].op = "UpdateMetadata" /\ reqs[q].op = "UpdateValues"
              /\ Origin(content[Key(reqs[q])]).Metadata # reqs[r].md
           \/ /\ reqs[r].op = "UpdateValues" /\ reqs[q].op = "UpdateMetadata"
              /\ Origin(content[Key(reqs[q])]).Values.Raw # JSONToYAML(reqs[r].values).yaml

Listings == {"ListMetadataInSpace", "ListLatestMetadataInSpace", "ListMetadataInChart"}

\* the last listed version of a chart holds an archive that decodes
LatestReadable(c) ==
    /\ Len(versions[c]) > 0
    /\ ~LoadArchive(content[<<c, Last(versions[c])>>]).err

\* C7: for an existing chart GetLatestMetadataInChart returns the metadata
\* of the version listed last by chart.List, whatever its number; with no
\* version listed it fails with ErrorContentNotFound("metadata"), which is
\* not the error of a chart that cannot be resolved, and looks up no version.
C7_LatestIsLastListed ==
    (resp.op = "GetLatestMetadataInChart" /\ ChartExists(versions, resp.space, resp.chart))
       => LET numbers == versions[resp.chart]
          IN IF Len(numbers) = 0
             THEN /\ resp.err = Err("ErrorContentNotFound", <<"metadata">>)
                  /\ resp.err # getLatestMetadata(versions, content, resp.space, "px").err
                  /\ resp.lookups = 0
             ELSE /\ resp.lookups = 1
                  /\ LatestReadable(resp.chart) <=> resp.err = Nil
                  /\ resp.err = Nil
                        => /\ resp.metadata.Name = resp.chart
                           /\ resp.metadata.Version = numbers[Len(numbers)]
                           /\ resp.metadata =
                                 Origin(content[<<resp.chart, numbers[Len(numbers)]>>]).Metadata

\* the latest version of a chart listed as <<.., 2, 1>> is version 1
C7_Witness ==
    /\ resp.op = "GetLatestMetadataInChart"
    /\ resp.err = Nil
    /\ Len(versions[resp.chart]) >= 2
    /\ \E i \in 1..Len(versions[resp.chart]) : versions[resp.chart][i] > resp.metadata.Version
    /\ resp.metadata.Version = Last(versions[resp.chart])

\* the full listing a paginated request windows
FullListing(rs) ==
    IF rs.op = "ListMetadataInChart"
    THEN [i \in 1..Len(versions[rs.chart]) |->
             Origin(content[<<rs.chart, versions[rs.chart][i]>>]).Metadata]
    ELSE IF rs.op = "ListLatestMetadataInSpace"
    THEN [i \in 1..Len(ChartList) |->
             Origin(content[<<ChartList[i], Last(versions[ChartList[i]])>>]).Metadata]
    ELSE SpaceVersionMetadata(versions, content).metadata

\* nothing but the window stands between the request and its listing: the
\* addressed space or chart exists and every archive listed decodes
ListingAvailable(rs) ==
    IF rs.op = "ListMetadataInChart"
    THEN /\ ChartExists(versions, rs.space, rs.chart)
         /\ \A v \in Range(versions[rs.chart]) : ~LoadArchive(content[<<rs.chart, v>>]).err
    ELSE IF rs.op = "ListLatestMetadataInSpace"
    THEN SpaceExists(rs.space) /\ \A i \in 1..Len(ChartList) : LatestReadable(ChartList[i])
    ELSE SpaceExists(rs.space) /\ \A k \in DOMAIN content : ~LoadArchive(content[k]).err

\* C8: a paginated listing whose full listing can be obtained succeeds for
\* every start and limit; it returns as total the length of the full
\* listing and as page its elements from+1..to, where from is start clamped
\* to 0..total and to is min(from + limit, total), or total when limit <= 0;
\* a start beyond total gives an empty page and the same total.
C8_PageWindow ==
    resp.op \in Listings
       => /\ ListingAvailable(resp) => resp.err = Nil
          /\ resp.err = Nil
                => LET full == FullListing(resp)
                       total == Len(full)
                       from == IF resp.start < 0 THEN 0 ELSE Min(resp.start, total)
                       to == IF resp.limit <= 0 THEN total
                             ELSE Min(from + resp.limit, total)
                   IN /\ resp.total = total
                      /\ 0 <= from /\ from <= to /\ to <= total
                      /\ Len(resp.page) = to - from
                      /\ \A i \in 1..Len(resp.page) : resp.page[i] = full[from + i]
                      /\ resp.start > total => resp.page = <<>>

\* start=5, limit=10 over a chart of 3 versions
C8_Witness ==
    /\ resp.op = "ListMetadataInChart"
    /\ resp.err = Nil
    /\ resp.start = 5
    /\ resp.limit = 10
    /\ Len(versions[resp.chart]) = 3
    /\ resp.total = 3
    /\ resp.page = <<>>

\* C9: ListLatestMetadataInSpace of the existing space succeeds exactly when
\* the latest metadata of every chart of space.List can be obtained; then
\* total is the number of charts and the page is the window over one entry
\* per chart, in List order, each the metadata of the chart's last listed
\* version; otherwise it returns the error of the first chart that fails,
\* total 0 and no entries.
C9_AllOrNothing ==
    (resp.op = "ListLatestMetadataInSpace" /\ SpaceExists(resp.space))
       => IF \A i \in 1..Len(ChartList) : LatestReadable(ChartList[i])
          THEN LET full == FullListing(resp)
                   range == standardizeRange(Len(ChartList), resp.start, resp.limit)
               IN /\ resp.err = Nil
                  /\ resp.total = Len(ChartList)
                  /\ \A i \in 1..Len(ChartList) :
                        /\ full[i].Name = ChartList[i]
                        /\ full[i].Version = Last(versions[ChartList[i]])
                  /\ resp.page = [i \in 1..(range[2] - range[1]) |-> full[range[1] + i]]
          ELSE LET first == CHOOSE i \in 1..Len(ChartList) :
                               /\ ~LatestReadable(ChartList[i])
                               /\ \A j \in 1..(i - 1) : LatestReadable(ChartList[j])
               IN /\ resp.err # Nil
                  /\ resp.err = getLatestMetadata(versions, content, resp.space,
                                                  ChartList[first]).err
                  /\ resp.total = 0
                  /\ resp.page = <<>>

\* chart p1 has a readable latest version, chart p2 has no version: the
\* listing fails as a whole
C9_Witness ==
    /\ resp.op = "ListLatestMetadataInSpace"
    /\ SpaceExists(resp.space)
    /\ LatestReadable("p1")
    /\ Len(versions["p2"]) = 0
    /\ resp.err = Err("ErrorContentNotFound", <<"metadata">>)
    /\ resp.total = 0
    /\ resp.page = <<>>

====
